---- MODULE Spec2Model ----
(***************************************************************************)
(* Conversation state of the Telegram / Google AI Studio relay bot.        *)
(*                                                                         *)
(* MessageProcessor (src/src/message_handler.py) keeps two dictionaries,   *)
(* conversations and last_activity, and serves process_message and         *)
(* clear_conversation.  process_message is a coroutine: everything up to   *)
(* the await of the model call runs without yielding (sweep, history read, *)
(* context construction), the call is then suspended, and everything after *)
(* the await (the client's result handling, _update_conversation, the      *)
(* return) runs without yielding again.  Several calls can be suspended at *)
(* the same time; clear_conversation is synchronous.                       *)
(*                                                                         *)
(* Texts are sequences of tokens, so that str.strip and the substring      *)
(* tests on the apology are computed and not assumed.  Time is counted in  *)
(* minutes, the unit of timeout_minutes.                                   *)
(***************************************************************************)
EXTENDS Integers, Sequences, FiniteSets, TLC

VARIABLES
    conversations,    \* self.conversations: user id -> list of entries
    last_activity,    \* self.last_activity: user id -> time
    timeout_minutes,  \* self.timeout_minutes, read from the environment
    now,              \* datetime.now()
    calls,            \* the suspended process_message calls: frame -> how many
    started,          \* number of process_message calls made so far
    returned,         \* what the process_message call that returned last gave back
    seen              \* history variable: user id -> time a process_message
                      \* call of the user last ran

vars ==
    <<conversations, last_activity, timeout_minutes, now, calls, started,
      returned, seen>>

----------------------------------------------------------------------------
\* Bounds of the model.

MaxCalls == 2
MaxTime == 1
MaxTimeout == 1

\* The users that write to the bot, and what they write.
Users == {1, 2}
Messages == {<<"a">>, <<"b">>}

\* What model.generate_content_async can put in response.text: nothing, a
\* text, a text wrapped in white space.
WS == " "
ModelTexts == {<<>>, <<"r1">>, <<WS, "r2", WS>>}

----------------------------------------------------------------------------
\* Program constants.

max_history == 50
recent_window == 10

\* The three literals the code answers a failure with.
ProcessorApology ==
    <<"Sorry, I encountered an ", "error",
      " while processing your message. Please ", "try again", ".">>
ClientEmptyReply ==
    <<"I'm sorry, I couldn't generate a response. Please try rephrasing your message.">>
ClientErrorReply ==
    <<"I'm experiencing technical difficulties. Please ", "try again", " later.">>

SystemPrompt ==
    <<"You are a helpful AI assistant in a Telegram chat. Respond naturally and helpfully to user messages. Keep responses concise but informative.\n">>

----------------------------------------------------------------------------
\* Helpers for Python's list, dict and str operations.

\* lst[-n:]
LastN(lst, n) ==
    IF Len(lst) <= n THEN lst ELSE SubSeq(lst, Len(lst) - n + 1, Len(lst))

\* del d[k]
DictDel(d, k) == [v \in DOMAIN d \ {k} |-> d[v]]

\* Mutant of DictSet: the other keys are dropped.
DictSetAlone(d, k, x) == [v \in {k} |-> x]

\* d[k] = x
DictSet(d, k, x) == [v \in DOMAIN d \cup {k} |-> IF v = k THEN x ELSE d[v]]

\* str.strip(): leading and trailing white space removed.
RECURSIVE LStrip(_)
LStrip(t) == IF t # <<>> /\ Head(t) = WS THEN LStrip(Tail(t)) ELSE t

RECURSIVE RStrip(_)
RStrip(t) ==
    IF t # <<>> /\ t[Len(t)] = WS THEN RStrip(SubSeq(t, 1, Len(t) - 1)) ELSE t

Strip(t) == RStrip(LStrip(t))

\* w in t
Contains(t, w) == \E i \in 1..Len(t) : t[i] = w

----------------------------------------------------------------------------
\* The conversation store: the two dictionaries, passed as one record.

Store == [conversations |-> conversations, last_activity |-> last_activity]

Entry(role, content, t) == [role |-> role, content |-> content, timestamp |-> t]

\* Mutant of _get_conversation_history: the log is started afresh on every
\* call.
GetHistoryAlwaysFresh(s, user_id) ==
    [s EXCEPT !.conversations = DictSet(s.conversations, user_id, <<>>)]

\* _get_conversation_history: the store after the call; the list it returns
\* is conversations[user_id] of that store.
_get_conversation_history(s, user_id) ==
    IF user_id \notin DOMAIN s.conversations
    THEN [s EXCEPT !.conversations = DictSet(s.conversations, user_id, <<>>)]
    ELSE s

\* Mutants of LimitHistory: the slice taken from the wrong end; no limit.
LimitHistoryKeepsOldest(log) ==
    IF Len(log) > max_history THEN SubSeq(log, 1, max_history) ELSE log
LimitHistoryNever(log) == log
\* Mutant of LimitHistory: one entry fewer is kept.
LimitHistoryOddWindow(log) ==
    IF Len(log) > max_history THEN LastN(log, max_history - 1) ELSE log

\* Lines 82-85: keep the last max_history entries.
LimitHistory(log) ==
    IF Len(log) > max_history THEN LastN(log, max_history) ELSE log

\* Mutant of AppendExchange: the exchange put at the front of the log.
AppendExchangeAtFront(log, user_message, ai_response, t) ==
    << Entry("user", user_message, t), Entry("assistant", ai_response, t) >>
        \o log

\* Mutant of AppendExchange: the reply appended before the message.
AppendExchangeReplyFirst(log, user_message, ai_response, t) ==
    Append(Append(log, Entry("assistant", ai_response, t)),
           Entry("user", user_message, t))

\* Lines 65-77: the two appends.
AppendExchange(log, user_message, ai_response, t) ==
    Append(Append(log, Entry("user", user_message, t)),
           Entry("assistant", ai_response, t))

_update_conversation(s, user_id, user_message, ai_response, t) ==
    LET s1 == _get_conversation_history(s, user_id)   \* lines 62-63
        log == AppendExchange(s1.conversations[user_id],
                              user_message, ai_response, t)
    IN  [conversations |-> DictSet(s1.conversations, user_id, LimitHistory(log)),
         last_activity |-> DictSet(s1.last_activity, user_id, t)]

\* Mutants of clear_conversation: only the log is deleted; the log is emptied
\* in place of being deleted.
ClearLogOnly(s, user_id) ==
    [s EXCEPT !.conversations = DictDel(s.conversations, user_id)]
ClearToEmptyLog(s, user_id) ==
    [conversations |-> DictSet(s.conversations, user_id, <<>>),
     last_activity |-> DictDel(s.last_activity, user_id)]

\* Lines 91-96: each del is guarded by a membership test.
clear_conversation(s, user_id) ==
    [conversations |-> DictDel(s.conversations, user_id),
     last_activity |-> DictDel(s.last_activity, user_id)]

\* Mutant of IsInactive: a session at the cutoff counts as inactive.
IsInactiveAtCutoff(last_time, cutoff_time) == last_time <= cutoff_time

\* Line 104
IsInactive(last_time, cutoff_time) == last_time < cutoff_time

\* Lines 100-105
users_to_remove(s, t, timeout) ==
    {u \in DOMAIN s.last_activity : IsInactive(s.last_activity[u], t - timeout)}

_cleanup_old_conversations(s, t, timeout) ==
    LET gone == users_to_remove(s, t, timeout)
    IN  [conversations |-> [v \in DOMAIN s.conversations \ gone
                              |-> s.conversations[v]],
         last_activity |-> [v \in DOMAIN s.last_activity \ gone
                              |-> s.last_activity[v]]]

\* Line 116: sum(len(conv) for conv in self.conversations.values())
RECURSIVE SumOfLengths(_, _)
SumOfLengths(conv, keys) ==
    IF keys = {} THEN 0
    ELSE LET k == CHOOSE x \in keys : TRUE
         IN  Len(conv[k]) + SumOfLengths(conv, keys \ {k})

\* Mutant of get_conversation_stats: the users are counted in last_activity.
StatsFromLastActivity(s) ==
    LET active_users == Cardinality(DOMAIN s.last_activity)
        total_messages == SumOfLengths(s.conversations, DOMAIN s.conversations)
    IN  [store |-> s,
         result |->
            [active_users |-> active_users,
             total_messages |-> total_messages,
             average_messages_per_user |->
                IF active_users > 0 THEN <<total_messages, active_users>>
                ELSE <<0, 1>>]]

\* get_conversation_stats: the store after the call and the dict returned.
\* The quotient total_messages / active_users is kept as the pair
\* <<numerator, denominator>>; the 0 of line 121 is <<0, 1>>.
get_conversation_stats(s) ==
    LET active_users == Cardinality(DOMAIN s.conversations)
        total_messages == SumOfLengths(s.conversations, DOMAIN s.conversations)
    IN  [store |-> s,
         result |->
            [active_users |-> active_users,
             total_messages |-> total_messages,
             average_messages_per_user |->
                IF active_users > 0 THEN <<total_messages, active_users>>
                ELSE <<0, 1>>]]

----------------------------------------------------------------------------
\* GoogleStudioClient

RECURSIVE HistoryLines(_)
HistoryLines(h) ==
    IF h = <<>> THEN <<>>
    ELSE LET m == Head(h)
             line == IF m.role = "user" THEN <<<<"User: ", m.content>>>>
                     ELSE IF m.role = "assistant"
                          THEN <<<<"Assistant: ", m.content>>>>
                          ELSE <<>>
         IN  line \o HistoryLines(Tail(h))

\* Mutant of _build_context: the whole history goes into the context.
BuildContextWholeHistory(current_prompt, conversation_history) ==
    IF conversation_history = <<>>
    THEN <<current_prompt>>
    ELSE <<SystemPrompt>>
         \o HistoryLines(conversation_history)
         \o <<<<"User: ", current_prompt>>, <<"Assistant:">>>>

\* _build_context: the lines that "\n".join puts together.
_build_context(current_prompt, conversation_history) ==
    IF conversation_history = <<>>
    THEN <<current_prompt>>
    ELSE <<SystemPrompt>>
         \o HistoryLines(LastN(conversation_history, recent_window))
         \o <<<<"User: ", current_prompt>>, <<"Assistant:">>>>

\* What the awaited model call can do: return a response with some text, or
\* raise.  A client stubbed as in tests/test_bot.py can raise out of
\* generate_response itself.
ModelOutcomes ==
    [kind : {"text"}, text : ModelTexts]
    \cup {[kind |-> "model_raises", text |-> <<>>],
          [kind |-> "client_raises", text |-> <<>>]}

\* generate_response after the await: the value returned, or raised = TRUE
\* when the exception leaves the client.
generate_response(outcome) ==
    IF outcome.kind = "client_raises"
    THEN [raised |-> TRUE, text |-> <<>>]
    ELSE IF outcome.kind = "model_raises"
    THEN [raised |-> FALSE, text |-> ClientErrorReply]
    ELSE IF outcome.text # <<>>
    THEN [raised |-> FALSE, text |-> Strip(outcome.text)]
    ELSE [raised |-> FALSE, text |-> ClientEmptyReply]

----------------------------------------------------------------------------
\* MessageProcessor.process_message

\* The suspended calls are a bag of frames.
Suspended == DOMAIN calls
BagAdd(bag, f) ==
    IF f \in DOMAIN bag THEN [bag EXCEPT ![f] = @ + 1] ELSE DictSet(bag, f, 1)
BagRemove(bag, f) ==
    IF bag[f] > 1 THEN [bag EXCEPT ![f] = @ - 1] ELSE DictDel(bag, f)
RECURSIVE BagSize(_)
BagSize(bag) ==
    IF DOMAIN bag = {} THEN 0
    ELSE LET f == CHOOSE g \in DOMAIN bag : TRUE
         IN  bag[f] + BagSize(DictDel(bag, f))
InFlight(user_id) == \E f \in Suspended : f.user_id = user_id

\* The frame of a call as it is suspended at line 42: generate_response has
\* been entered once, with the context built from the history just read.
NewFrame(user_id, message, conversation_history) ==
    [user_id |-> user_id, message |-> message,
     context |-> _build_context(message, conversation_history),
     gateway_calls |-> 1]

\* Mutant of ProcessMessageCall: the history is read before the sweep runs.
ProcessMessageCallReadFirst(user_id, message) ==
    /\ started < MaxCalls
    /\ LET s1 == _get_conversation_history(Store, user_id)
           s2 == _cleanup_old_conversations(s1, now, timeout_minutes)
       IN  /\ conversations' = s2.conversations
           /\ last_activity' = s2.last_activity
           /\ calls' = BagAdd(calls,
                  NewFrame(user_id, message, s1.conversations[user_id]))
    /\ started' = started + 1
    /\ seen' = DictSet(seen, user_id, now)
    /\ UNCHANGED <<timeout_minutes, now, returned>>

\* Lines 36-42, up to the await: sweep, read the history, build the context
\* and hand it to the model.
ProcessMessageCall(user_id, message) ==
    /\ started < MaxCalls
    /\ LET s1 == _cleanup_old_conversations(Store, now, timeout_minutes)
           s2 == _get_conversation_history(s1, user_id)
       IN  /\ conversations' = s2.conversations
           /\ last_activity' = s2.last_activity
           /\ calls' = BagAdd(calls,
                  NewFrame(user_id, message, s2.conversations[user_id]))
    /\ started' = started + 1
    /\ seen' = DictSet(seen, user_id, now)
    /\ UNCHANGED <<timeout_minutes, now, returned>>

\* Mutant of StoreAfterResponse: the exchange replaces the log in place of
\* being appended to it.
StoreAfterResponseLosingLog(s, user_id, message, r, t) ==
    IF r.raised THEN s
    ELSE _update_conversation(
             [s EXCEPT !.conversations = DictSet(s.conversations, user_id, <<>>)],
             user_id, message, r.text, t)

\* Mutant of StoreAfterResponse: the exchange is recorded before the failure
\* is known, with the apology as the reply.
StoreAfterResponseAlways(s, user_id, message, r, t) ==
    _update_conversation(s, user_id, message,
                         IF r.raised THEN ProcessorApology ELSE r.text, t)

\* The store a call leaves behind, given what generate_response did: line 45
\* is reached unless line 42 raised.
StoreAfterResponse(s, user_id, message, r, t) ==
    IF r.raised THEN s
    ELSE _update_conversation(s, user_id, message, r.text, t)

\* The text process_message returns: line 47 or line 51.
ReplyText(r) == IF r.raised THEN ProcessorApology ELSE r.text

\* Mutant of SuspendedAfterResponse: the call whose client raised stays
\* suspended.
SuspendedWhileRaised(bag, f, r) == IF r.raised THEN bag ELSE BagRemove(bag, f)

\* Mutant of SuspendedAfterResponse: a failed call asks the client again.
SuspendedAfterRetry(bag, f, r) ==
    IF r.raised \/ r.text \in {ClientEmptyReply, ClientErrorReply}
    THEN BagAdd(BagRemove(bag, f), [f EXCEPT !.gateway_calls = @ + 1])
    ELSE BagRemove(bag, f)

\* The suspended calls once the call of frame f has its response: the call
\* returns, whatever the response was.
SuspendedAfterResponse(bag, f, r) == BagRemove(bag, f)

\* Lines 42-51, from the await on.
ProcessMessageReturn(f, outcome) ==
    /\ f \in Suspended
    /\ LET r == generate_response(outcome)
           s == StoreAfterResponse(Store, f.user_id, f.message, r, now)
       IN  /\ calls' = SuspendedAfterResponse(calls, f, r)
           /\ returned' = [user_id |-> f.user_id, text |-> ReplyText(r),
                           raised |-> FALSE, outcome |-> outcome,
                           gateway_calls |-> f.gateway_calls]
           /\ conversations' = s.conversations
           /\ last_activity' = s.last_activity
    /\ seen' = DictSet(seen, f.user_id, now)
    /\ UNCHANGED <<timeout_minutes, now, started>>

\* main.py clear_command
ClearConversation(user_id) ==
    /\ LET s == clear_conversation(Store, user_id)
       IN  /\ conversations' = s.conversations
           /\ last_activity' = s.last_activity
    /\ UNCHANGED <<timeout_minutes, now, calls, started, returned, seen>>

\* Time passes.
Tick ==
    /\ now < MaxTime
    /\ now' = now + 1
    /\ UNCHANGED <<conversations, last_activity, timeout_minutes, calls, started,
                   returned, seen>>

EmptyDict == [v \in {} |-> <<>>]
EmptyStore == [conversations |-> EmptyDict, last_activity |-> EmptyDict]
NothingReturned ==
    [user_id |-> 0, text |-> <<>>, raised |-> FALSE,
     outcome |-> [kind |-> "none", text |-> <<>>], gateway_calls |-> 0]

\* MessageProcessor.__init__
Init ==
    /\ conversations = EmptyDict
    /\ last_activity = EmptyDict
    /\ timeout_minutes \in 0..MaxTimeout
    /\ now = 0
    /\ calls = EmptyDict
    /\ started = 0
    /\ returned = NothingReturned
    /\ seen = EmptyDict

Next ==
    \/ \E u \in Users, m \in Messages : ProcessMessageCall(u, m)
    \/ \E f \in Suspended, o \in ModelOutcomes : ProcessMessageReturn(f, o)
    \/ \E u \in Users : ClearConversation(u)
    \/ Tick

Spec == Init /\ [][Next]_vars

----------------------------------------------------------------------------
\* A processor that has already served a long conversation: user 1 has had n
\* exchanges, one after the other, at time 0.  The store is computed by the
\* n calls of _update_conversation that those exchanges made.

EarlierMessage(k) == IF k % 2 = 1 THEN <<"a">> ELSE <<"b">>

RECURSIVE StoreAfterExchanges(_)
StoreAfterExchanges(n) ==
    IF n = 0 THEN EmptyStore
    ELSE _update_conversation(StoreAfterExchanges(n - 1), 1,
                              EarlierMessage(n), <<"r1">>, 0)

EarlierExchanges == {max_history \div 2 - 1, max_history \div 2}

InitLong ==
    \E n \in EarlierExchanges :
        /\ conversations = StoreAfterExchanges(n).conversations
        /\ last_activity = StoreAfterExchanges(n).last_activity
        /\ timeout_minutes \in 0..MaxTimeout
        /\ now = 0
        /\ calls = EmptyDict
        /\ started = 0
        /\ returned = [user_id |-> 1, text |-> <<"r1">>, raised |-> FALSE,
                       outcome |-> [kind |-> "text", text |-> <<"r1">>],
                       gateway_calls |-> 1]
        /\ seen = DictSet(EmptyDict, 1, 0)

SpecLong == InitLong /\ [][Next]_vars

----------------------------------------------------------------------------
\* The event loop resumes a suspended call once its awaited model call has
\* completed, with a result or with an exception: the continuation of every
\* user's suspended call is taken if it stays possible.

ReturnTo(u) ==
    \E f \in Suspended, o \in ModelOutcomes :
        f.user_id = u /\ ProcessMessageReturn(f, o)

FairSpec == Spec /\ \A u \in Users : WF_vars(ReturnTo(u))

----------------------------------------------------------------------------
\* Vocabulary of the properties.

LogOf(conv, u) == IF u \in DOMAIN conv THEN conv[u] ELSE <<>>
Min(a, b) == IF a <= b THEN a ELSE b
Succeeded(o) == o.kind = "text" /\ o.text # <<>>
ModelFailed(o) == o.kind = "model_raises" \/ (o.kind = "text" /\ o.text = <<>>)
Failed(o) == ModelFailed(o) \/ o.kind = "client_raises"
\* The idle timeout of u has elapsed: no call of u has run since now - timeout.
Idle(u) == u \in DOMAIN seen /\ seen[u] < now - timeout_minutes

----------------------------------------------------------------------------
\* C1.  Lockstep invariant: a user id is a key of last_activity if and only
\* if it is a key of conversations.
Lockstep == DOMAIN last_activity = DOMAIN conversations

\* C2.  Append postcondition: when a call of process_message reaches
\* _update_conversation(u, userText, reply) with u's log L (empty when u has
\* no log), u's log becomes the last min(50, |L| + 2) entries of
\* L ++ [User: userText, Assistant: reply], and u's last activity becomes the
\* current time.
AppendPostcondition ==
    [][\A f \in Suspended, o \in ModelOutcomes :
        (ProcessMessageReturn(f, o) /\ ~generate_response(o).raised) =>
            LET u == f.user_id
                L == LogOf(conversations, u)
                all == L \o <<[role |-> "user", content |-> f.message,
                               timestamp |-> now],
                              [role |-> "assistant",
                               content |-> generate_response(o).text,
                               timestamp |-> now]>>
                k == Min(50, Len(L) + 2)
            IN  /\ u \in DOMAIN conversations'
                /\ conversations'[u] = SubSeq(all, Len(all) - k + 1, Len(all))
                /\ u \in DOMAIN last_activity'
                /\ last_activity'[u] = now]_vars

\* A log that has been trimmed: user 1's earlier conversation began with "a",
\* and its 50 entries now begin with the second exchange and end with the
\* reply just returned.
TrimmedAfterAppend ==
    /\ 1 \in DOMAIN conversations
    /\ Len(conversations[1]) = 50
    /\ conversations[1][1].content = <<"b">>
    /\ started >= 1
    /\ returned.user_id = 1
    /\ conversations[1][50].content = returned.text
    /\ conversations[1][49].role = "user"

\* C3.  Retention bound: every log holds at most 50 entries, in every state,
\* also while calls are suspended.
RetentionBound == \A u \in DOMAIN conversations : Len(conversations[u]) <= 50

\* Two calls were suspended together; one has returned and the log, trimmed,
\* holds 50 entries while the other is still suspended.
FullLogWhileSuspended ==
    /\ started = 2
    /\ BagSize(calls) = 1
    /\ \E u \in DOMAIN conversations :
          /\ Len(conversations[u]) = 50
          /\ conversations[u][1].content = <<"b">>
          /\ InFlight(u)

\* C4.  Sweep exactness: from every store state, time and timeout >= 0,
\* _cleanup_old_conversations removes from both maps exactly the users whose
\* last activity is strictly earlier than now - timeout, and leaves every
\* other user's log and last activity as they were.
SweepExactness ==
    LET s == _cleanup_old_conversations(Store, now, timeout_minutes)
    IN  \A u \in Users :
            IF u \in DOMAIN last_activity
               /\ last_activity[u] < now - timeout_minutes
            THEN u \notin DOMAIN s.conversations
                 /\ u \notin DOMAIN s.last_activity
            ELSE /\ u \in DOMAIN s.conversations <=> u \in DOMAIN conversations
                 /\ u \in DOMAIN s.last_activity <=> u \in DOMAIN last_activity
                 /\ LogOf(s.conversations, u) = LogOf(conversations, u)
                 /\ u \in DOMAIN last_activity =>
                        s.last_activity[u] = last_activity[u]

\* A store in which the sweep has a session to remove, a session exactly at
\* the cutoff to keep, both with a log.
SweepRemovesOneKeepsOne ==
    /\ timeout_minutes >= 0
    /\ \E u, v \in DOMAIN last_activity :
          /\ last_activity[u] < now - timeout_minutes
          /\ last_activity[v] = now - timeout_minutes
          /\ conversations[u] # <<>>
          /\ conversations[v] # <<>>

\* C5.  Every idle session is destroyed: when a message of another user
\* arrives after the idle timeout of u has elapsed, and no call of u is
\* suspended, the sweep of that message removes u's session.
IdleSessionSwept ==
    [][\A v \in Users, m \in Messages, u \in Users :
        (/\ ProcessMessageCall(v, m)
         /\ u # v
         /\ u \in DOMAIN conversations
         /\ ~InFlight(u)
         /\ Idle(u)) => u \notin DOMAIN conversations']_vars

\* C6.  Fail-soft without append: when generate_response raises, the call
\* returns the apology (with "error" and "try again" in it), raises nothing,
\* and leaves both maps as they were.
FailSoftWithoutAppend ==
    [][\A f \in Suspended, o \in ModelOutcomes :
        (ProcessMessageReturn(f, o) /\ o.kind = "client_raises") =>
            /\ ~returned'.raised
            /\ returned'.user_id = f.user_id
            /\ Contains(returned'.text, "error")
            /\ Contains(returned'.text, "try again")
            /\ conversations' = conversations
            /\ last_activity' = last_activity]_vars

\* A call that read an empty history has failed and its user's log is still
\* empty, with no last activity.
FailedCallReturned ==
    /\ returned.outcome.kind = "client_raises"
    /\ returned.user_id \in DOMAIN conversations
    /\ conversations[returned.user_id] = <<>>
    /\ returned.user_id \notin DOMAIN last_activity

\* C7.  Append only on success: when the model call inside generate_response
\* raises or yields empty text, the call of process_message adds nothing to
\* the log and does not refresh the last activity.
AppendOnlyOnSuccess ==
    [][\A f \in Suspended, o \in ModelOutcomes :
        (ProcessMessageReturn(f, o) /\ ModelFailed(o)) =>
            /\ conversations' = conversations
            /\ last_activity' = last_activity]_vars

\* C8.  Single fixed failure reply: two calls that both failed, in whatever
\* way, returned the same text.
SingleFailureReply ==
    [][(Failed(returned.outcome) /\ Failed(returned'.outcome)) =>
            returned'.text = returned.text]_vars

\* C9.  End-to-end success: a call for a user whose history was empty when
\* read and is still empty when the reply r arrives returns exactly r and
\* leaves the log [User: text, Assistant: r] and a last activity.
EndToEndSuccess ==
    [][\A f \in Suspended, o \in ModelOutcomes :
        (/\ ProcessMessageReturn(f, o)
         /\ Succeeded(o)
         /\ f.context = <<f.message>>
         /\ LogOf(conversations, f.user_id) = <<>>) =>
            LET r == generate_response(o).text
            IN  /\ returned'.text = r
                /\ ~returned'.raised
                /\ f.user_id \in DOMAIN conversations'
                /\ Len(conversations'[f.user_id]) = 2
                /\ conversations'[f.user_id][1].role = "user"
                /\ conversations'[f.user_id][1].content = f.message
                /\ conversations'[f.user_id][2].role = "assistant"
                /\ conversations'[f.user_id][2].content = r
                /\ f.user_id \in DOMAIN last_activity'
                /\ last_activity'[f.user_id] = now]_vars

\* The first exchange of a user has been recorded and its reply returned.
FirstExchangeRecorded ==
    /\ Succeeded(returned.outcome)
    /\ returned.user_id \in DOMAIN conversations
    /\ Len(conversations[returned.user_id]) = 2
    /\ conversations[returned.user_id][2].content = returned.text
    /\ returned.text = <<"r2">>

\* C10.  No retries: a call is suspended on its one and only call of
\* generate_response, and the response, success or failure, ends it.
NoRetries ==
    [][/\ \A f \in DOMAIN calls' : f.gateway_calls = 1
       /\ \A f \in Suspended, o \in ModelOutcomes :
            ProcessMessageReturn(f, o) =>
                /\ returned'.gateway_calls = 1
                /\ BagSize(calls') = BagSize(calls) - 1]_vars

\* A failed call and a successful call have both returned.
FailureThenSuccessReturned ==
    /\ started = 2
    /\ calls = EmptyDict
    /\ Succeeded(returned.outcome)
    /\ returned.gateway_calls = 1
    /\ \E u \in DOMAIN conversations :
          /\ Len(conversations[u]) = 2
          /\ conversations[u][2].content = ClientErrorReply

ClearRemovesSession ==
    [][\A u \in Users :
         (ClearConversation(u) /\ u \in DOMAIN conversations) =>
             LET after == _get_conversation_history(Store', u)
             IN  /\ u \notin DOMAIN conversations'
                 /\ u \notin DOMAIN last_activity'
                 /\ u \in DOMAIN after.conversations
                 /\ after.conversations[u] = <<>>]_vars

\* The user whose call returned a reply has no session although no sweep can
\* have removed one: the session was cleared.
SessionCleared ==
    /\ timeout_minutes >= now
    /\ Succeeded(returned.outcome)
    /\ returned.user_id \in Users
    /\ returned.user_id \notin DOMAIN conversations
    /\ returned.user_id \notin DOMAIN last_activity

\* C13.  Clear is idempotent: clear_conversation for a user with no session
\* leaves the store as it is, and clearing twice gives the store that clearing
\* once gives.
ClearIdempotent ==
    \A u \in Users :
        LET once == clear_conversation(Store, u)
        IN  /\ u \notin DOMAIN conversations => once = Store
            /\ clear_conversation(once, u) = once

\* One user's session has been cleared while the other user has a log.
ClearedBesideLiveSession ==
    /\ timeout_minutes >= now
    /\ \E u \in DOMAIN seen, v \in DOMAIN conversations :
          /\ u \notin DOMAIN conversations
          /\ u \notin DOMAIN last_activity
          /\ conversations[v] # <<>>

\* C14.  Lazy session creation: _get_conversation_history for a user with no
\* session returns an empty list and makes the user a key of the log map,
\* changing nothing else; for a user with a session it returns the log and
\* changes nothing.
LazySessionCreation ==
    \A u \in Users :
        LET after == _get_conversation_history(Store, u)
        IN  IF u \notin DOMAIN conversations
            THEN /\ DOMAIN after.conversations = DOMAIN conversations \cup {u}
                 /\ after.conversations[u] = <<>>
                 /\ \A v \in DOMAIN conversations :
                       after.conversations[v] = conversations[v]
                 /\ after.last_activity = last_activity
            ELSE /\ after = Store
                 /\ after.conversations[u] = conversations[u]

\* A session that a call has just created, beside a user with no session.
SessionCreatedByCall ==
    \E u \in DOMAIN conversations, v \in Users :
        /\ conversations[u] = <<>>
        /\ u \notin DOMAIN last_activity
        /\ InFlight(u)
        /\ v \notin DOMAIN conversations

\* C15.  Sweep precedes read: a call of process_message for a user whose last
\* activity is older than the timeout hands the model the message alone, the
\* context of an empty history, and leaves the user a fresh empty session;
\* when the call then succeeds, at whatever time, the user's log is exactly
\* the new exchange.
SweepPrecedesRead ==
    [][\A u \in Users, m \in Messages :
        (/\ ProcessMessageCall(u, m)
         /\ u \in DOMAIN last_activity
         /\ last_activity[u] < now - timeout_minutes
         /\ conversations[u] # <<>>) =>
            /\ calls' = BagAdd(calls, [user_id |-> u, message |-> m,
                                       context |-> <<m>>, gateway_calls |-> 1])
            /\ conversations'[u] = <<>>
            /\ u \notin DOMAIN last_activity'
            /\ \A o \in ModelOutcomes, t \in now .. MaxTime :
                  Succeeded(o) =>
                      LET r == generate_response(o)
                          s == StoreAfterResponse(Store', u, m, r, t)
                      IN  s.conversations[u] =
                              << Entry("user", m, t),
                                 Entry("assistant", r.text, t) >>]_vars

\* The user who was answered at time 0 has called again after the timeout
\* elapsed: the call is suspended with the message alone as its context and
\* the session is a fresh one.
ExpiredUserCalledAgain ==
    /\ now > timeout_minutes
    /\ started = 2
    /\ Succeeded(returned.outcome)
    /\ \E f \in Suspended :
          /\ f.user_id = returned.user_id
          /\ f.context = <<f.message>>
          /\ seen = DictSet(EmptyDict, f.user_id, now)
          /\ conversations = DictSet(EmptyDict, f.user_id, <<>>)
          /\ last_activity = EmptyDict

\* C16.  Log evolution: in every step a user's log stays as it is, or is
\* removed with its session (a call that sweeps its own user's session leaves a
\* new empty log in its place), or gets one exchange appended at its end, with
\* entries dropped from its front exactly when the length would exceed 50;
\* the entries that stay keep their values and their order.
LogEvolution ==
    [][\A u \in DOMAIN conversations :
        LET log == conversations[u]
        IN  \/ u \notin DOMAIN conversations'
            \/ conversations'[u] = log
            \/ conversations'[u] = <<>>
            \/ LET appended == LastN(conversations'[u], 2)
               IN  conversations'[u] =
                       IF Len(log) + 2 > max_history
                       THEN LastN(log \o appended, max_history)
                       ELSE log \o appended]_vars

\* Two exchanges were appended to a log of 50 entries: the two oldest
\* exchanges are gone and the third is now the first.
TwoExchangesEvicted ==
    /\ started = 2
    /\ calls = EmptyDict
    /\ 1 \in DOMAIN conversations
    /\ Len(conversations[1]) = max_history
    /\ conversations[1][1] = Entry("user", EarlierMessage(3), 0)
    /\ conversations[1][max_history - 2].content = <<"r2">>
    /\ conversations[1][max_history].content = <<"r2">>

\* C17.  Context window: _build_context of a text and an empty history is the
\* text alone; of a history H that is not empty it is the system preamble,
\* then the last min(10, |H|) entries of H in their order, each as a line
\* tagged with its role, then the line of the text, then the assistant cue,
\* and nothing else.
RoleTag(role) == IF role = "user" THEN "User: " ELSE "Assistant: "
LogEntries == {<<u, i>> \in Users \X (1..max_history) :
                  u \in DOMAIN conversations /\ i <= Len(conversations[u])}
StatsSnapshot ==
    LET stats == get_conversation_stats(Store)
        r == stats.result
    IN  /\ stats.store = Store
        /\ r.active_users = Cardinality(DOMAIN conversations)
        /\ r.total_messages = Cardinality(LogEntries)
        /\ r.average_messages_per_user[2] # 0
        /\ IF DOMAIN conversations = {}
           THEN r.average_messages_per_user = <<0, 1>>
           ELSE r.average_messages_per_user =
                    <<r.total_messages, r.active_users>>

\* Two sessions, one with an exchange in its log and one still empty.
TwoSessionsOneExchange ==
    /\ get_conversation_stats(Store).result.active_users = 2
    /\ get_conversation_stats(Store).result.total_messages = 2
    /\ \E u \in DOMAIN conversations : conversations[u] = <<>>

\* C19.  No lost exchange under interleaving: two calls of one user were
\* suspended together, both having read the history before either appended;
\* the first has returned with success and its exchange ends the log.  When
\* the second returns with success, the log keeps what it held, the first
\* call's exchange included, and ends with the second call's message followed
\* by the second call's reply: both exchanges, in the order of completion.
ReadBeforeLastExchange(f) ==
    /\ f.user_id = returned.user_id
    /\ Succeeded(returned.outcome)
    /\ f.user_id \in DOMAIN conversations
    /\ LET log == conversations[f.user_id]
       IN  /\ Len(log) >= 2
           /\ log[Len(log)].role = "assistant"
           /\ log[Len(log)].content = returned.text
           /\ f.context =
                  _build_context(f.message, SubSeq(log, 1, Len(log) - 2))
NoLostExchange ==
    [][\A f \in Suspended, o \in ModelOutcomes :
        (/\ ProcessMessageReturn(f, o)
         /\ Succeeded(o)
         /\ ReadBeforeLastExchange(f)) =>
            LET log == conversations[f.user_id]
                after == conversations'[f.user_id]
                n == Len(log)
            IN  /\ Len(after) = n + 2
                /\ SubSeq(after, 1, n) = log
                /\ after[n - 1].role = "user"
                /\ after[n].content = returned.text
                /\ after[n + 1] = Entry("user", f.message, now)
                /\ after[n + 2] =
                       Entry("assistant", generate_response(o).text, now)]_vars

\* Both calls of a user read the empty history; the first has returned and
\* its exchange is the log, the second is still suspended.
SecondCallStillSuspended ==
    /\ started = 2
    /\ \E f \in Suspended :
          /\ ReadBeforeLastExchange(f)
          /\ f.context = <<f.message>>
          /\ Len(conversations[f.user_id]) = 2
          /\ conversations[f.user_id][1].content # f.message

\* C20.  Role alternation: every log has an even number of entries, a user
\* entry at every odd position and an assistant entry at every even position.
RoleAlternation ==
    \A u \in DOMAIN conversations :
        /\ Len(conversations[u]) % 2 = 0
        /\ \A i \in 1..Len(conversations[u]) :
              conversations[u][i].role =
                  IF i % 2 = 1 THEN "user" ELSE "assistant"

\* One user's log has been trimmed to 50 entries and starts with a user
\* entry; the other user's log holds one exchange.
TrimmedLogBesideShortLog ==
    /\ calls = EmptyDict
    /\ DOMAIN conversations = Users
    /\ \E u \in Users, v \in Users :
          /\ Len(conversations[u]) = max_history
          /\ conversations[u][1] = Entry("user", EarlierMessage(2), 0)
          /\ conversations[u][max_history].role = "assistant"
          /\ Len(conversations[v]) = 2

\* C21.  Clear is not undone by a call in flight: a call of process_message
\* creates its user's session before it is suspended, so a suspended call
\* whose user has no session, at a time when no sweep can have removed one,
\* was submitted before a clear_conversation of that user; when such a call
\* returns, its message is not put into the user's log.
SubmittedBeforeClear(f) ==
    /\ f \in Suspended
    /\ f.user_id \notin DOMAIN conversations
    /\ timeout_minutes >= now
ClearNotUndone ==
    [][\A f \in Suspended, o \in ModelOutcomes :
        (ProcessMessageReturn(f, o) /\ SubmittedBeforeClear(f)) =>
            \A i \in 1..Len(LogOf(conversations', f.user_id)) :
                LET e == conversations'[f.user_id][i]
                IN  ~(e.role = "user" /\ e.content = f.message)]_vars

\* C22.  Per-user isolation: _get_conversation_history, _update_conversation
\* and clear_conversation for user u leave every other user's log and last
\* activity as they were, present or absent.
SameSession(s, t, v) ==
    /\ v \in DOMAIN s.conversations <=> v \in DOMAIN t.conversations
    /\ v \in DOMAIN s.conversations => s.conversations[v] = t.conversations[v]
    /\ v \in DOMAIN s.last_activity <=> v \in DOMAIN t.last_activity
    /\ v \in DOMAIN s.last_activity => s.last_activity[v] = t.last_activity[v]
PerUserIsolation ==
    \A u \in Users, v \in Users :
        u # v =>
        /\ SameSession(Store, _get_conversation_history(Store, u), v)
        /\ SameSession(Store, clear_conversation(Store, u), v)
        /\ \A m \in Messages, o \in ModelOutcomes :
              SameSession(Store,
                          _update_conversation(Store, u, m,
                                               generate_response(o).text, now),
                          v)

\* Both users have a log and a last activity, and both are past the timeout:
\* the sweep would remove either user's session on the other's call.
BothSessionsLiveAndIdle ==
    /\ calls = EmptyDict
    /\ DOMAIN last_activity = Users
    /\ \A u \in Users : conversations[u] # <<>>
    /\ users_to_remove(Store, now, timeout_minutes) = Users

====
